---- MODULE Spec2Model ----
(***************************************************************************)
(* Model of the mailbox synchronisation engine of the Onebox e-mail        *)
(* aggregator: IMAPService (connection table, idle / poll timers,          *)
(* ingestion runs, processEmail), the account API of AccountController     *)
(* that drives it, and the two IMAPService instances the process builds    *)
(* (one in the server entry point, one in the account routes).             *)
(*                                                                         *)
(* Every action is one handler of the event loop: an API call up to its    *)
(* first await on I/O, a connection event, a timer, or the callback of a   *)
(* mail-protocol or search-index request.  A promise continuation runs in  *)
(* the same step as the callback that settles the promise.                 *)
(***************************************************************************)
EXTENDS Integers, Sequences, FiniteSets, TLC

\* ------------------------------------------------------------- bounds
MaxConns == 3       \* connections opened over a behaviour
MaxRuns == 3        \* ingestion runs started over a behaviour
MaxMail == 1        \* messages a mailbox holds in the supervisor model
MaxCopies == 2      \* records indexed for one (account, message)
MaxTimers == 1      \* pending timers of one kind for one account and instance
MaxCalls == 2       \* requests served by the account API over a behaviour

\* ---------------------------------------------------- program constants
BatchSize == 10     \* results.slice(0, 10)
RetentionDays == 730   \* cutoffDate.setDate(cutoffDate.getDate() - 730)
InitialDays == 730     \* fetchNewEmails(account.id, 730); the days of a sync request
DefaultDays == 7       \* days = 7 of fetchNewEmails and pollForNewEmails
Percent == 100         \* confidences are kept in percent: 0.5 is 50
FallbackConfidence == 50   \* confidence: 0.5 of the catch blocks
LocalLow == 40         \* LocalAIService: professional domain, confidence 0.4
LocalDefault == 60     \* LocalAIService: no indicators, spam, confidence 0.6

\* --------------------------------------------------- the pipeline scenario
PipeMail == 2          \* messages in the mailbox
WindowDays == 30       \* a sync request with days = 30
StaleDays == 100       \* a message inside the retention horizon, outside that window
ScenarioConfidence == 82   \* a classification with confidence 0.82

\* ------------------------------------------------------ the error scenario
RetryCap == 2          \* failed attempts in a row after which a retry policy gives up
MaxBatchMail == 11     \* emails handed to one batchCategorizeEmails call
LocalBatchSize == 10   \* AIService: batchSize of the local provider
RemoteBatchSize == 5   \* AIService: batchSize of the other providers
HuggingFaceBatchSize == 3  \* HuggingFaceService: batchSize

\* ------------------------------------------------------- the sync scenario
ScenarioMail == 15     \* messages in the mailbox, all inside the lookback window
ScenarioIndexed == 3   \* of which already indexed

Accounts == {"a1"}
\* accountId values of the index: deleteAccount leaves the records of an
\* account in the index
IndexAccounts == Accounts \cup {"a2"}
Instances == {"server", "routes"}
TimerKinds == {"startIdle", "refresh", "poll", "reconnect", "forceSync"}
Msgs == 1..ScenarioMail
NoTimer == [kind |-> "none", live |-> FALSE]

VARIABLES
  registry,      \* EmailAccount table: account -> "absent" | "active" | "inactive"
  booted,        \* initializeApp has run
  calls,         \* requests the account API has served
  idleSupported, \* typeof imap.idle === 'function' for this build
  mailbox,       \* remote mailbox: account -> sequence of message identifiers
  index,         \* search index: account -> message identifier -> number of records
  conns,         \* every Imap object created: [inst, acct, temp, st, box, err, test];
                 \* st: connecting, ready, ending (end() called), ended, dropped, failed;
                 \* err: the 'error' event it had: none, auth, transport;
                 \* test: what testConnection answered when it made it
  connections,   \* IMAPService.connections: instance -> account -> connection (0: no entry)
  isIdle,        \* IMAPService.isIdle: instance -> account -> "unset" | "true" | "false"
  idleTimeouts,  \* IMAPService.idleTimeouts: instance -> account -> timer handle
  timers,        \* pending setTimeout callbacks: instance -> account -> kind -> count
  idleOpen,      \* pending openBox callbacks of startIdleMode
  mailEv,        \* connections with a 'mail' event to deliver
  runs,          \* ingestion runs: [acct, inst, kind, conn, st, days, todo, processedCount,
                 \* logged, sigs, extra]; logged: the count the run reports at fetch 'end'
  procs,         \* processEmail calls in flight: [run, msg, pc, category, confidence,
                 \* via, reply, slack, webhook]
  meta,          \* the messages: message -> [age (days before processing), category
                 \* (what a working classifier answers)]
  effects,       \* calls made for a message: account -> message ->
                 \* [classify, reply, upsert, slack, webhook, newEmail]
  docs,          \* the documents indexEmail has created
  done,          \* messages a run is through with: [run, msg, outcome, ...]
  exited,        \* process.exit(1) was called
  lastSync,      \* EmailAccount.lastSync: account -> number of times it was set
  batch,         \* the batchCategorizeEmails call: [impl, emails, i, pending, results, st]
  edit           \* one indexed document and its last updateEmail: [st, before, updates, doc]

vars == <<registry, booted, calls, idleSupported, mailbox, index, conns, connections,
          isIdle, idleTimeouts, timers, idleOpen, mailEv, runs, procs,
          exited, lastSync, batch, edit, meta, effects, docs, done>>

\* ------------------------------------------------------------ helpers
ConnIds == 1..Len(conns)
RunIds == 1..Len(runs)

Min(x, y) == IF x < y THEN x ELSE y

\* results.slice(0, 10)
Slice(s) == SubSeq(s, 1, Min(Len(s), BatchSize))

\* a run that has started and has not finished processing its messages
RunInFlight(r) ==
  \/ runs[r].st \in {"connecting", "opening", "fetching"}
  \/ \E p \in procs : p.run = r

RunsInFlight(a) == {r \in RunIds : runs[r].acct = a /\ RunInFlight(r)}

\* connections of an account that are open: handshake done, end() not called
LiveConns(a) == {c \in ConnIds : conns[c].acct = a /\ conns[c].st = "ready"}

\* ElasticsearchService.findEmailByMessageId: term query on messageId alone
findEmailByMessageId(m) == \E a \in IndexAccounts : index[a][m] > 0

\* what processEmail gets from findEmailByMessageId: the catch block of the
\* search logs the error and returns null
existingEmail(m, ok) == ok /\ findEmailByMessageId(m)

\* imap.end(): LOGOUT is sent and the 'end' event follows; a temporary
\* connection has no 'end' handler, so its close is the end() call itself
EndConn(cs, c) ==
  IF c # 0 /\ cs[c].st \in {"connecting", "ready"}
  THEN [cs EXCEPT ![c].st = IF cs[c].temp THEN "ended" ELSE "ending"] ELSE cs

\* one more run is started; the runs in flight for the account record it
NoteSignal(rs, a, started) ==
  [r \in 1..Len(rs) |->
     IF rs[r].acct = a /\ r \in RunsInFlight(a)
     THEN [rs[r] EXCEPT !.sigs = Min(@ + 1, 2),
                        !.extra = IF started THEN Min(@ + 1, 2) ELSE @]
     ELSE rs[r]]

\* the days argument of a run: 730 at 'ready' and from the account API, the
\* default of fetchNewEmails(accountId) and pollForNewEmails(accountId) else
DaysOf(k) == IF k \in {"initial", "force"} THEN InitialDays ELSE DefaultDays

NewRun(i, a, k, c, s) ==
  [acct |-> a, inst |-> i, kind |-> k, conn |-> c, st |-> s, days |-> DaysOf(k),
   todo |-> <<>>, processedCount |-> 0, logged |-> 0, sigs |-> 0, extra |-> 0]

\* a message nobody has anything to say about: new, no keyword in it
Plain == [age |-> 0, category |-> "spam"]

NoEffects ==
  [classify |-> 0, reply |-> 0, upsert |-> 0, slack |-> 0, webhook |-> 0, newEmail |-> 0]

\* one more call of kind f for message m of account a
Bump(e, a, m, f) == [e EXCEPT ![a][m][f] = @ + 1]

\* processEmail(accountId, parsed, days) is called
NewProc(r, m) ==
  [run |-> r, msg |-> m, pc |-> "lookup", own |-> FALSE, category |-> "none",
   confidence |-> 0, via |-> "none", reply |-> "none", slack |-> "none", webhook |-> "none"]

\* processEmail returns: what it did with the message
Finish(p, outcome) == [p EXCEPT !.pc = outcome]

\* the document processEmail hands to indexEmail
Doc(a, p) ==
  [acct |-> a, msg |-> p.msg, category |-> p.category, confidence |-> p.confidence,
   via |-> p.via, suggestedReply |-> p.reply = "attached"]

\* a cutoff that drops the message dated at the horizon too
TooOldInclusive(age) == age >= RetentionDays

\* emailDate < cutoffDate, in days before now
TooOld(age) == age > RetentionDays

\* no batchCategorizeEmails call was made
NoBatch == [impl |-> "none", emails |-> 0, i |-> 0, pending |-> {}, results |-> 0, st |-> "none"]

\* no document was indexed yet
NoEdit == [st |-> "none", before |-> <<>>, updates |-> <<>>, doc |-> <<>>]

NewConn(i, a, t) ==
  [inst |-> i, acct |-> a, temp |-> t, st |-> "connecting", box |-> FALSE, err |-> "none",
   test |-> "none"]

\* ------------------------------------------------------------ initial state
InitWith(inbox) ==
  /\ registry \in [Accounts -> {"absent", "active"}]
  /\ booted = FALSE
  /\ calls = 0
  /\ idleSupported \in BOOLEAN
  /\ mailbox = [a \in Accounts |-> inbox]
  /\ index = [a \in IndexAccounts |-> [m \in Msgs |-> 0]]
  /\ conns = <<>>
  /\ connections = [i \in Instances |-> [a \in Accounts |-> 0]]
  /\ isIdle = [i \in Instances |-> [a \in Accounts |-> "unset"]]
  /\ idleTimeouts = [i \in Instances |-> [a \in Accounts |-> NoTimer]]
  /\ timers = [i \in Instances |-> [a \in Accounts |-> [k \in TimerKinds |-> 0]]]
  /\ idleOpen = {}
  /\ mailEv = {}
  /\ runs = <<>>
  /\ procs = {}
  /\ meta = [m \in Msgs |-> Plain]
  /\ effects = [a \in Accounts |-> [m \in Msgs |-> NoEffects]]
  /\ docs = {}
  /\ done = {}
  /\ exited = FALSE
  /\ lastSync = [a \in Accounts |-> 0]
  /\ batch = NoBatch
  /\ edit = NoEdit

\* empty mailboxes: mail arrives later
Init == InitWith(<<>>)

\* ---------------------------------------------------------- IMAPService
\* connectToAccount: a new Imap object, handlers registered, imap.connect()
connectToAccount(cs, i, a) == Append(cs, NewConn(i, a, FALSE))

\* fetchNewEmails up to its first callback: no table entry, no run
fetchNewEmails(rs, i, a, k, c) ==
  IF c = 0 THEN rs ELSE Append(rs, NewRun(i, a, k, c, "opening"))

\* setTimeout
Schedule(ts, i, a, k) == [ts EXCEPT ![i][a][k] = @ + 1]

\* clearTimeout of the handle kept in idleTimeouts (a fired handle clears nothing)
ClearTracked(ts, i, a) ==
  LET h == idleTimeouts[i][a]
  IN IF h.live THEN [ts EXCEPT ![i][a][h.kind] = @ - 1] ELSE ts

\* 'ready' of a connection made by connectToAccount
ReadyPersistent(c) ==
  LET i == conns[c].inst
      a == conns[c].acct
  IN /\ conns[c].st = "connecting"
     /\ ~conns[c].temp
     /\ Len(runs) < MaxRuns
     /\ timers[i][a]["startIdle"] < MaxTimers
     /\ conns' = [conns EXCEPT ![c].st = "ready"]
     /\ connections' = [connections EXCEPT ![i][a] = c]
     /\ runs' = fetchNewEmails(runs, i, a, "initial", c)
     /\ timers' = Schedule(timers, i, a, "startIdle")
     /\ UNCHANGED <<registry, booted, calls, idleSupported, mailbox, index, isIdle,
                    idleTimeouts, idleOpen, mailEv, procs,
                    exited, lastSync, batch, edit, meta, effects, docs, done>>

\* the 'end' handler registered by connectToAccount
onEnd(c, st) ==
  LET i == conns[c].inst
      a == conns[c].acct
  IN /\ conns' = [conns EXCEPT ![c].st = st]
     /\ connections' = [connections EXCEPT ![i][a] = 0]
     /\ mailEv' = mailEv \ {c}
     /\ UNCHANGED <<registry, booted, calls, idleSupported, mailbox, index, isIdle,
                    idleTimeouts, timers, idleOpen, runs, procs,
                    exited, lastSync, batch, edit, meta, effects, docs, done>>

\* 'end' after imap.end() was called on a connection made by connectToAccount
EndPersistent(c) ==
  /\ conns[c].st = "ending"
  /\ ~conns[c].temp
  /\ onEnd(c, "ended")

\* the server or the network drops an open connection: 'end' with no end() call
Drop(c) ==
  /\ conns[c].st = "ready"
  /\ ~conns[c].temp
  /\ onEnd(c, "dropped")

\* a message arrives in the remote mailbox; every open connection of the
\* account with a selected mailbox gets a 'mail' event
MailArrives(a) ==
  /\ Len(mailbox[a]) < MaxMail
  /\ mailbox' = [mailbox EXCEPT ![a] = Append(@, Len(@) + 1)]
  /\ mailEv' = mailEv \cup {c \in ConnIds : /\ conns[c].acct = a
                                           /\ ~conns[c].temp
                                           /\ conns[c].st = "ready"
                                           /\ conns[c].box}
  /\ UNCHANGED <<registry, booted, calls, idleSupported, index, conns, connections,
                 isIdle, idleTimeouts, timers, idleOpen, runs, procs,
                    exited, lastSync, batch, edit, meta, effects, docs, done>>

\* 'mail' handler -> handleNewMail up to its await
handleNewMail(c) ==
  LET i == conns[c].inst
      a == conns[c].acct
      imap == connections[i][a]
  IN /\ c \in mailEv
     /\ Len(runs) < MaxRuns
     /\ mailEv' = mailEv \ {c}
     /\ conns' = EndConn(conns, imap)
     /\ isIdle' = IF imap = 0 THEN isIdle ELSE [isIdle EXCEPT ![i][a] = "false"]
     /\ runs' = fetchNewEmails(NoteSignal(runs, a, imap # 0), i, a, "newmail", imap)
     /\ UNCHANGED <<registry, booted, calls, idleSupported, mailbox, index, connections,
                    idleTimeouts, timers, idleOpen, procs,
                    exited, lastSync, batch, edit, meta, effects, docs, done>>

\* a timer of kind k fires: the one whose handle idleTimeouts holds, or another
Fire(i, a, k) ==
  LET h == idleTimeouts[i][a]
      held == h.live /\ h.kind = k
  IN /\ timers[i][a][k] > 0
     /\ \E tracked \in BOOLEAN :
          /\ tracked => held
          /\ ~tracked => timers[i][a][k] > (IF held THEN 1 ELSE 0)
          /\ idleTimeouts' = IF tracked
                             THEN [idleTimeouts EXCEPT ![i][a].live = FALSE]
                             ELSE idleTimeouts

\* the 2 s / 1 s timer -> startIdleMode up to imap.openBox
startIdleMode(i, a) ==
  LET imap == connections[i][a]
  IN /\ timers[i][a]["startIdle"] > 0
     /\ timers' = [timers EXCEPT ![i][a]["startIdle"] = @ - 1]
     /\ idleOpen' = IF imap = 0 THEN idleOpen
                    ELSE idleOpen \cup {[inst |-> i, acct |-> a, conn |-> imap]}
     /\ UNCHANGED <<registry, booted, calls, idleSupported, mailbox, index, conns,
                    connections, isIdle, idleTimeouts, mailEv, runs, procs,
                    exited, lastSync, batch, edit, meta, effects, docs, done>>

\* a startIdleMode that sets the idle flag before it looks for idle()
idleFlagSetFirst(supported) == "true"

\* this.isIdle.set(accountId, true) after idle(), this.isIdle.set(accountId,
\* false) where imap.idle is no function
idleFlag(supported) == IF supported THEN "true" ELSE "false"

\* the openBox callback of startIdleMode: idle() and the refresh timer, or the
\* first poll timer; on a connection that is no longer open the callback gets
\* an error or is never called
startIdleOpened(x) ==
  LET i == x.inst
      a == x.acct
      k == IF idleSupported THEN "refresh" ELSE "poll"
  IN /\ x \in idleOpen
     /\ idleOpen' = idleOpen \ {x}
     /\ IF conns[x.conn].st = "ready"
        THEN /\ timers[i][a][k] < MaxTimers
             /\ conns' = [conns EXCEPT ![x.conn].box = TRUE]
             /\ isIdle' = [isIdle EXCEPT ![i][a] = idleFlag(idleSupported)]
             /\ timers' = Schedule(timers, i, a, k)
             /\ idleTimeouts' = [idleTimeouts EXCEPT ![i][a] = [kind |-> k, live |-> TRUE]]
        ELSE UNCHANGED <<conns, isIdle, timers, idleTimeouts>>
     /\ UNCHANGED <<registry, booted, calls, idleSupported, mailbox, index, connections,
                    mailEv, runs, procs,
                    exited, lastSync, batch, edit, meta, effects, docs, done>>

\* the 5 min timer -> refreshIdleMode
refreshIdleMode(i, a) ==
  LET imap == connections[i][a]
      go == imap # 0 /\ isIdle[i][a] = "true"
  IN /\ Fire(i, a, "refresh")
     /\ go => timers[i][a]["reconnect"] < MaxTimers
     /\ conns' = IF go THEN EndConn(conns, imap) ELSE conns
     /\ isIdle' = IF go THEN [isIdle EXCEPT ![i][a] = "false"] ELSE isIdle
     /\ timers' = LET t == [timers EXCEPT ![i][a]["refresh"] = @ - 1]
                  IN IF go THEN Schedule(t, i, a, "reconnect") ELSE t
     /\ UNCHANGED <<registry, booted, calls, idleSupported, mailbox, index, connections,
                    idleOpen, mailEv, runs, procs,
                    exited, lastSync, batch, edit, meta, effects, docs, done>>

\* the 5 s timer -> reconnectAccount, which only logs
reconnectAccount(i, a) ==
  /\ timers[i][a]["reconnect"] > 0
  /\ timers' = [timers EXCEPT ![i][a]["reconnect"] = @ - 1]
  /\ UNCHANGED <<registry, booted, calls, idleSupported, mailbox, index, conns,
                 connections, isIdle, idleTimeouts, idleOpen, mailEv, runs, procs,
                    exited, lastSync, batch, edit, meta, effects, docs, done>>

\* a poll timer -> pollForNewEmails up to tempImap.connect(); an unknown
\* account returns before the try block schedules anything
pollForNewEmails(i, a) ==
  LET known == registry[a] # "absent"
  IN /\ Fire(i, a, "poll")
     /\ timers' = [timers EXCEPT ![i][a]["poll"] = @ - 1]
     /\ known => Len(conns) < MaxConns /\ Len(runs) < MaxRuns
     /\ conns' = IF known THEN Append(conns, NewConn(i, a, TRUE)) ELSE conns
     /\ runs' = IF known
                THEN Append(runs, NewRun(i, a, "poll", Len(conns) + 1, "connecting"))
                ELSE runs
     /\ UNCHANGED <<registry, booted, calls, idleSupported, mailbox, index, connections,
                    isIdle, idleOpen, mailEv, procs,
                    exited, lastSync, batch, edit, meta, effects, docs, done>>

\* forceEmailSync up to tempImap.connect(); for an unknown account it throws
\* before it makes a connection: a run that is rejected from the start
forceEmailSync(i, a, signal) ==
  LET known == registry[a] # "absent"
      rs == IF signal THEN NoteSignal(runs, a, known) ELSE runs
  IN /\ Len(runs) < MaxRuns
     /\ known => Len(conns) < MaxConns
     /\ conns' = IF known THEN Append(conns, NewConn(i, a, TRUE)) ELSE conns
     /\ runs' = IF known
                THEN Append(rs, NewRun(i, a, "force", Len(conns) + 1, "connecting"))
                ELSE Append(rs, NewRun(i, a, "force", 0, "rejected"))

\* 'ready' of a temporary connection: openBox is issued
ReadyTemp(c) ==
  /\ conns[c].st = "connecting"
  /\ conns[c].temp
  /\ conns' = [conns EXCEPT ![c].st = "ready"]
  /\ runs' = [r \in RunIds |->
                IF runs[r].conn = c /\ runs[r].st = "connecting"
                THEN [runs[r] EXCEPT !.st = "opening"] ELSE runs[r]]
  /\ UNCHANGED <<registry, booted, calls, idleSupported, mailbox, index, connections,
                 isIdle, idleTimeouts, timers, idleOpen, mailEv, procs,
                    exited, lastSync, batch, edit, meta, effects, docs, done>>

\* EmailAccount.update({lastSync: new Date()}, {where: {id}}): the row of an
\* account that exists is written
updateLastSync(ls, a) == IF registry[a] # "absent" THEN [ls EXCEPT ![a] = @ + 1] ELSE ls

\* a forceEmailSync that sets lastSync in a finally block
lastSyncAfterAnyOutcome(ls, r, out) ==
  IF runs[r].kind = "force" THEN updateLastSync(ls, runs[r].acct) ELSE ls

\* forceEmailSync after the promise of its run: resolved, lastSync is set;
\* rejected, the catch block logs and throws again; no other caller of a run
\* sets lastSync
lastSyncAfter(ls, r, out) ==
  IF runs[r].kind = "force" /\ out = "resolved" THEN updateLastSync(ls, runs[r].acct) ELSE ls

\* the promise of a run settles and its caller continues: handleNewMail restarts
\* idle mode after a fetch that resolved, pollForNewEmails sets the next poll
\* timer (60 s, or 120 s from its catch block), a temporary connection is ended,
\* forceEmailSync sets lastSync after a run that resolved
Settle(r, out, cs) ==
  LET i == runs[r].inst
      a == runs[r].acct
      c == runs[r].conn
      t == CASE runs[r].kind = "newmail" /\ out = "resolved" -> "startIdle"
             [] runs[r].kind = "poll" /\ out # "hung" -> "poll"
             [] OTHER -> "none"
  IN /\ t # "none" => timers[i][a][t] < MaxTimers
     /\ runs' = [runs EXCEPT ![r].st = out, ![r].todo = <<>>,
                             ![r].logged = IF out = "resolved" THEN runs[r].processedCount
                                           ELSE @]
     /\ timers' = IF t = "none" THEN timers ELSE Schedule(timers, i, a, t)
     /\ idleTimeouts' = IF t = "poll"
                        THEN [idleTimeouts EXCEPT ![i][a] = [kind |-> "poll", live |-> TRUE]]
                        ELSE idleTimeouts
     /\ conns' = IF cs[c].temp /\ out # "hung" THEN EndConn(cs, c) ELSE cs
     /\ lastSync' = lastSyncAfter(lastSync, r, out)

\* what an 'error' event of a connection reports: the login is refused
\* (before 'ready' only), or the transport fails (refused, timeout, reset)
ErrorKinds(c) == IF conns[c].st = "connecting" THEN {"auth", "transport"} ELSE {"transport"}

\* listeners of the 'error' event of an IMAPService: the server entry point
\* registers one on the instance it builds, accountRoutes none on its own
ErrorListeners(i) == IF i = "server" THEN 1 ELSE 0

\* this.emit('error', accountId, err): with a listener the listener runs; with
\* none emit throws, out of the connection's event handler, which is an
\* uncaught exception: its handler logs and calls process.exit(1)
emitError(i) == ErrorListeners(i) = 0

\* the 'error' handler registered by connectToAccount (once): it logs and
\* emits 'error'; whether 'end' follows the error is up to the mail library
ConnError(c) ==
  LET i == conns[c].inst
      a == conns[c].acct
  IN /\ conns[c].st \in {"connecting", "ready"}
     /\ ~conns[c].temp
     /\ conns[c].err = "none"
     /\ \E kind \in ErrorKinds(c) :
          conns' = [conns EXCEPT ![c].st = "failed", ![c].err = kind]
     /\ exited' = emitError(i)
     /\ \E ends \in BOOLEAN :
          connections' = IF ends /\ ~emitError(i)
                         THEN [connections EXCEPT ![i][a] = 0] ELSE connections
     /\ mailEv' = mailEv \ {c}
     /\ UNCHANGED <<registry, booted, calls, idleSupported, mailbox, index, isIdle,
                    idleTimeouts, timers, idleOpen, runs, procs,
                    lastSync, batch, edit, meta, effects, docs, done>>

\* the 'error' handler of the temporary connection of pollForNewEmails or
\* forceEmailSync: reject(err), while the promise of the run is not settled
TempError(r) ==
  LET c == runs[r].conn
  IN /\ runs[r].st \in {"connecting", "opening", "fetching"}
     /\ conns[c].temp
     /\ conns[c].st \in {"connecting", "ready"}
     /\ \E kind \in ErrorKinds(c) :
          Settle(r, "rejected", [conns EXCEPT ![c].st = "failed", ![c].err = kind])
     /\ UNCHANGED <<registry, booted, calls, idleSupported, mailbox, index, connections,
                    isIdle, idleOpen, mailEv, procs,
                    exited, batch, edit, meta, effects, docs, done>>

\* openBox and search(['ALL']) call back on an open connection: the first
\* BatchSize results are fetched, an empty mailbox resolves the run
RunOpened(r) ==
  LET a == runs[r].acct
      c == runs[r].conn
  IN /\ runs[r].st = "opening"
     /\ conns[c].st = "ready"
     /\ IF mailbox[a] = <<>>
        THEN Settle(r, "resolved", [conns EXCEPT ![c].box = TRUE])
        ELSE /\ runs' = [runs EXCEPT ![r].st = "fetching", ![r].todo = Slice(mailbox[a])]
             /\ conns' = [conns EXCEPT ![c].box = TRUE]
             /\ UNCHANGED <<timers, idleTimeouts, lastSync>>
     /\ UNCHANGED <<registry, booted, calls, idleSupported, mailbox, index, connections,
                    isIdle, idleOpen, mailEv, procs,
                    exited, batch, edit, meta, effects, docs, done>>

\* a command on a connection that end() was called on, or that has ended:
\* the callback gets an error or is never called
RunBroken(r) ==
  /\ runs[r].st \in {"opening", "fetching"}
  /\ conns[runs[r].conn].st # "ready"
  /\ \E out \in {"rejected", "hung"} : Settle(r, out, conns)
  /\ UNCHANGED <<registry, booted, calls, idleSupported, mailbox, index, connections,
                 isIdle, idleOpen, mailEv, procs,
                 exited, batch, edit, meta, effects, docs, done>>

\* fetch 'message' ... msg 'end' -> simpleParser -> processEmail is called and
\* issues its duplicate lookup
FetchMessage(r) ==
  /\ runs[r].st = "fetching"
  /\ conns[runs[r].conn].st = "ready"
  /\ runs[r].todo # <<>>
  /\ procs' = procs \cup {NewProc(r, Head(runs[r].todo))}
  /\ runs' = [runs EXCEPT ![r].todo = Tail(@)]
  /\ UNCHANGED <<registry, booted, calls, idleSupported, mailbox, index, conns, connections,
                 isIdle, idleTimeouts, timers, idleOpen, mailEv,
                    exited, lastSync, batch, edit, meta, effects, docs, done>>

\* fetch 'end': processedCount is logged and resolve() is called, whether or
\* not the processEmail calls have returned
FetchEnd(r) ==
  /\ runs[r].st = "fetching"
  /\ conns[runs[r].conn].st = "ready"
  /\ runs[r].todo = <<>>
  /\ Settle(r, "resolved", conns)
  /\ UNCHANGED <<registry, booted, calls, idleSupported, mailbox, index, connections,
                 isIdle, idleOpen, mailEv, procs,
                 exited, batch, edit, meta, effects, docs, done>>

\* processEmail: findEmailByMessageId answers; a record with the message
\* identifier ends the call, then a date before the cutoff ends it, else
\* categorizeEmail is called; the caller counts a message that is through;
\* ok: the search of findEmailByMessageId went through
ProcessLookupOn(p, ok) ==
  LET a == runs[p.run].acct
      q == [p EXCEPT !.own = index[a][p.msg] > 0]
      out == CASE existingEmail(p.msg, ok) -> "duplicate"
               [] TooOld(meta[p.msg].age) -> "tooOld"
               [] OTHER -> "absent"
  IN /\ p \in procs
     /\ p.pc = "lookup"
     /\ procs' = IF out = "absent" THEN (procs \ {p}) \cup {[q EXCEPT !.pc = "absent"]}
                 ELSE procs \ {p}
     /\ done' = IF out = "absent" THEN done ELSE done \cup {Finish(q, out)}
     /\ runs' = IF out = "absent" THEN runs
                ELSE [runs EXCEPT ![p.run].processedCount = @ + 1]
     /\ effects' = IF out = "absent" THEN Bump(effects, a, p.msg, "classify") ELSE effects
     /\ UNCHANGED <<registry, booted, calls, idleSupported, mailbox, index, conns,
                    connections, isIdle, idleTimeouts, timers, idleOpen, mailEv,
                    exited, lastSync, batch, edit, meta, docs>>

ProcessLookup(p) == ProcessLookupOn(p, TRUE)

\* the same when the search fails with an index error
ProcessLookupFails(p) == ProcessLookupOn(p, FALSE)

\* ElasticsearchService.indexEmail: email.id is undefined, a new document is made
indexEmail(ix, a, m) == [ix EXCEPT ![a][m] = @ + 1]

\* the rest of processEmail for a message the classifier answers for with
\* another category than 'interested' and the index accepts, in one step:
\* categorizeEmail returns, indexEmail completes, 'newEmail' is emitted; the
\* caller counts the message
ProcessIndex(p) ==
  LET a == runs[p.run].acct
      q == [p EXCEPT !.category = meta[p.msg].category, !.confidence = LocalDefault,
                     !.via = "classified"]
  IN /\ p \in procs
     /\ p.pc = "absent"
     /\ meta[p.msg].category # "interested"
     /\ index[a][p.msg] < MaxCopies
     /\ index' = indexEmail(index, a, p.msg)
     /\ docs' = docs \cup {Doc(a, q)}
     /\ effects' = Bump(Bump(effects, a, p.msg, "upsert"), a, p.msg, "newEmail")
     /\ done' = done \cup {Finish(q, "indexed")}
     /\ procs' = procs \ {p}
     /\ runs' = [runs EXCEPT ![p.run].processedCount = @ + 1]
     /\ UNCHANGED <<registry, booted, calls, idleSupported, mailbox, conns, connections,
                    isIdle, idleTimeouts, timers, idleOpen, mailEv, exited, lastSync, batch, edit, meta>>

\* ---------------------------------------------- processEmail, step by step
\* confidences a classifier answers with
GenuineConfidences == {LocalLow, ScenarioConfidence}

\* Math.max(0, Math.min(1, undefined)): a value outside 0..Percent
NotANumber == Percent + 1

\* AIService.categorizeEmail and the provider under it. answer "ok": the
\* provider classifies; "error": the call fails, times out or returns text
\* that is no JSON, a catch block answers; "malformed": the OpenAI provider
\* gets JSON without the fields asked for and passes on what it finds
categorizeEmail(m, answer, c) ==
  CASE answer = "ok" ->
         [category |-> meta[m].category, confidence |-> c, via |-> "classified"]
    [] answer = "error" ->
         [category |-> "spam", confidence |-> FallbackConfidence, via |-> "fallback"]
    [] OTHER ->
         [category |-> "undefined", confidence |-> NotANumber, via |-> "malformed"]

Classifications(m) ==
  {categorizeEmail(m, "ok", c) : c \in GenuineConfidences}
    \cup {categorizeEmail(m, x, 0) : x \in {"error", "malformed"}}

\* categorizeEmail returns; for 'interested' generateContextualReply is called
Categorised(p) ==
  LET a == runs[p.run].acct
  IN /\ p \in procs
     /\ p.pc = "absent"
     /\ \E res \in Classifications(p.msg) :
          LET q == [p EXCEPT !.category = res.category, !.confidence = res.confidence,
                             !.via = res.via]
              interested == res.category = "interested"
          IN /\ procs' = (procs \ {p})
                           \cup {[q EXCEPT !.pc = IF interested THEN "reply" ELSE "index"]}
             /\ effects' = IF interested THEN Bump(effects, a, p.msg, "reply") ELSE effects
     /\ UNCHANGED <<registry, booted, calls, idleSupported, mailbox, index, conns,
                    connections, isIdle, idleTimeouts, timers, idleOpen, mailEv, runs,
                    exited, lastSync, batch, edit, meta, docs, done>>

\* RAGService.generateContextualReply returns a reply or throws; the catch
\* block of processEmail logs, indexEmail is called either way
generateContextualReply(ok) == IF ok THEN "attached" ELSE "failed"

\* processEmail without the try/catch around generateContextualReply: a
\* failure lands in the outer catch block
RepliedOrAborted(p) ==
  /\ p \in procs
  /\ p.pc = "reply"
  /\ \E ok \in BOOLEAN :
       LET q == [p EXCEPT !.reply = generateContextualReply(ok)]
       IN /\ procs' = IF ok THEN (procs \ {p}) \cup {[q EXCEPT !.pc = "index"]}
                      ELSE procs \ {p}
          /\ done' = IF ok THEN done ELSE done \cup {Finish(q, "replyFailed")}
          /\ runs' = IF ok THEN runs ELSE [runs EXCEPT ![p.run].processedCount = @ + 1]
  /\ UNCHANGED <<registry, booted, calls, idleSupported, mailbox, index, conns,
                 connections, isIdle, idleTimeouts, timers, idleOpen, mailEv,
                 exited, lastSync, batch, edit, meta, effects, docs>>

Replied(p) ==
  /\ p \in procs
  /\ p.pc = "reply"
  /\ \E ok \in BOOLEAN :
       procs' = (procs \ {p})
                  \cup {[p EXCEPT !.reply = generateContextualReply(ok), !.pc = "index"]}
  /\ UNCHANGED <<registry, booted, calls, idleSupported, mailbox, index, conns,
                 connections, isIdle, idleTimeouts, timers, idleOpen, mailEv, runs,
                 exited, lastSync, batch, edit, meta, effects, docs, done>>

\* an indexEmail that logs the error of the index request and returns
indexEmailSwallows(ok) == "returns"

\* ElasticsearchService.indexEmail towards its caller: an error of the index
\* request is logged and thrown again
indexEmailOutcome(ok) == IF ok THEN "returns" ELSE "throws"

\* the index request is over. indexEmail returned: for 'interested'
\* sendSlackNotification is called, else 'newEmail' is emitted and processEmail
\* returns. It threw: the outer catch block of processEmail logs and returns
IndexReturns(p) ==
  LET a == runs[p.run].acct
      interested == p.category = "interested"
  IN /\ p \in procs
     /\ p.pc = "index"
     /\ \E ok \in BOOLEAN :
          LET e == IF ok THEN Bump(effects, a, p.msg, "upsert") ELSE effects
          IN /\ ok => index[a][p.msg] < MaxCopies
             /\ index' = IF ok THEN indexEmail(index, a, p.msg) ELSE index
             /\ docs' = IF ok THEN docs \cup {Doc(a, p)} ELSE docs
             /\ IF indexEmailOutcome(ok) = "returns"
                THEN /\ effects' = Bump(e, a, p.msg, IF interested THEN "slack" ELSE "newEmail")
                     /\ procs' = IF interested
                                 THEN (procs \ {p}) \cup {[p EXCEPT !.pc = "slack"]}
                                 ELSE procs \ {p}
                     /\ done' = IF interested THEN done ELSE done \cup {Finish(p, "indexed")}
                     /\ runs' = IF interested THEN runs
                                ELSE [runs EXCEPT ![p.run].processedCount = @ + 1]
                ELSE /\ effects' = e
                     /\ procs' = procs \ {p}
                     /\ done' = done \cup {Finish(p, "indexFailed")}
                     /\ runs' = [runs EXCEPT ![p.run].processedCount = @ + 1]
     /\ UNCHANGED <<registry, booted, calls, idleSupported, mailbox, conns, connections,
                    isIdle, idleTimeouts, timers, idleOpen, mailEv, exited, lastSync, batch, edit, meta>>

\* what a send meets: delivered, refused by the service, an exception of the
\* client, or no destination configured
SendOutcomes == {"sent", "refused", "error", "unconfigured"}

\* a send without the catch block
sendRaises(outcome) == IF outcome = "error" THEN "raises" ELSE "returns"

\* NotificationService.sendSlackNotification: whatever it meets, its catch
\* block logs and it returns
sendSlackNotification(outcome) == "returns"

\* NotificationService.sendWebhook: likewise
sendWebhook(outcome) == "returns"

\* a send that raised lands in the outer catch block of processEmail
NotifyFailed(p) ==
  /\ procs' = procs \ {p}
  /\ done' = done \cup {Finish(p, "notifyFailed")}
  /\ runs' = [runs EXCEPT ![p.run].processedCount = @ + 1]
  /\ UNCHANGED effects

\* sendSlackNotification is over: sendWebhook is called
SlackReturns(p) ==
  LET a == runs[p.run].acct
  IN /\ p \in procs
     /\ p.pc = "slack"
     /\ \E o \in SendOutcomes :
          LET q == [p EXCEPT !.slack = o]
          IN IF sendSlackNotification(o) = "returns"
             THEN /\ procs' = (procs \ {p}) \cup {[q EXCEPT !.pc = "webhook"]}
                  /\ effects' = Bump(effects, a, p.msg, "webhook")
                  /\ UNCHANGED <<done, runs>>
             ELSE NotifyFailed(q)
     /\ UNCHANGED <<registry, booted, calls, idleSupported, mailbox, index, conns,
                    connections, isIdle, idleTimeouts, timers, idleOpen, mailEv,
                    exited, lastSync, batch, edit, meta, docs>>

\* sendWebhook is over: 'newEmail' is emitted and processEmail returns
WebhookReturns(p) ==
  LET a == runs[p.run].acct
  IN /\ p \in procs
     /\ p.pc = "webhook"
     /\ \E o \in SendOutcomes :
          LET q == [p EXCEPT !.webhook = o]
          IN IF sendWebhook(o) = "returns"
             THEN /\ procs' = procs \ {p}
                  /\ effects' = Bump(effects, a, p.msg, "newEmail")
                  /\ done' = done \cup {Finish(q, "indexed")}
                  /\ runs' = [runs EXCEPT ![p.run].processedCount = @ + 1]
             ELSE NotifyFailed(q)
     /\ UNCHANGED <<registry, booted, calls, idleSupported, mailbox, index, conns,
                    connections, isIdle, idleTimeouts, timers, idleOpen, mailEv,
                    exited, lastSync, batch, edit, meta, docs>>

\* a parse failure that rejects the run and ends the batch
FetchUnparsedAborts(r) ==
  /\ runs[r].st = "fetching"
  /\ conns[runs[r].conn].st = "ready"
  /\ runs[r].todo # <<>>
  /\ done' = done \cup {Finish(NewProc(r, Head(runs[r].todo)), "parseFailed")}
  /\ runs' = [runs EXCEPT ![r].todo = <<>>, ![r].st = "rejected"]
  /\ UNCHANGED <<registry, booted, calls, idleSupported, mailbox, index, conns, connections,
                 isIdle, idleTimeouts, timers, idleOpen, mailEv, procs,
                 exited, lastSync, batch, edit, meta, effects, docs>>

\* fetch 'message' ... msg 'end' -> simpleParser rejects: the .catch logs and
\* counts the message, processEmail is not called
FetchUnparsed(r) ==
  /\ runs[r].st = "fetching"
  /\ conns[runs[r].conn].st = "ready"
  /\ runs[r].todo # <<>>
  /\ done' = done \cup {Finish(NewProc(r, Head(runs[r].todo)), "parseFailed")}
  /\ runs' = [runs EXCEPT ![r].todo = Tail(@), ![r].processedCount = @ + 1]
  /\ UNCHANGED <<registry, booted, calls, idleSupported, mailbox, index, conns, connections,
                 isIdle, idleTimeouts, timers, idleOpen, mailEv, procs,
                 exited, lastSync, batch, edit, meta, effects, docs>>

\* disconnectAccount
disconnectAccount(i, a) ==
  LET imap == connections[i][a]
  IN /\ conns' = EndConn(conns, imap)
     /\ connections' = [connections EXCEPT ![i][a] = 0]
     /\ timers' = ClearTracked(timers, i, a)
     /\ idleTimeouts' = [idleTimeouts EXCEPT ![i][a] = NoTimer]
     /\ isIdle' = [isIdle EXCEPT ![i][a] = "unset"]

\* ------------------------------------------------------ server entry point
RECURSIVE ConnectAll(_, _, _)
ConnectAll(cs, i, S) ==
  IF S = {} THEN cs
  ELSE LET a == CHOOSE x \in S : TRUE
       IN ConnectAll(connectToAccount(cs, i, a), i, S \ {a})

\* initializeApp: the server's IMAPService connects every active account
initializeApp ==
  LET active == {a \in Accounts : registry[a] = "active"}
  IN /\ ~booted
     /\ booted' = TRUE
     /\ conns' = ConnectAll(conns, "server", active)
     /\ UNCHANGED <<registry, calls, idleSupported, mailbox, index, connections, isIdle,
                    idleTimeouts, timers, idleOpen, mailEv, runs, procs,
                    exited, lastSync, batch, edit, meta, effects, docs, done>>

\* ------------------------------------------------------- AccountController
\* (its IMAPService is the one built in accountRoutes)
createAccount(a) ==
  /\ booted
  /\ calls < MaxCalls
  /\ calls' = calls + 1
  /\ registry[a] = "absent"
  /\ Len(conns) < MaxConns
  /\ timers["routes"][a]["forceSync"] < MaxTimers
  /\ registry' = [registry EXCEPT ![a] = "active"]
  /\ conns' = connectToAccount(conns, "routes", a)
  /\ timers' = Schedule(timers, "routes", a, "forceSync")
  /\ UNCHANGED <<booted, idleSupported, mailbox, index, connections, isIdle,
                 idleTimeouts, idleOpen, mailEv, runs, procs,
                    exited, lastSync, batch, edit, meta, effects, docs, done>>

\* the 3 s timer of createAccount: forceEmailSync(account.id, 730), errors logged
createAccountSync(a) ==
  /\ timers["routes"][a]["forceSync"] > 0
  /\ timers' = [timers EXCEPT !["routes"][a]["forceSync"] = @ - 1]
  /\ forceEmailSync("routes", a, FALSE)
  /\ UNCHANGED <<registry, booted, calls, idleSupported, mailbox, index, connections,
                 isIdle, idleTimeouts, idleOpen, mailEv, procs,
                    exited, lastSync, batch, edit, meta, effects, docs, done>>

\* updateAccount with updates.isActive = isActive: the reconnect test reads
\* account.isActive after account.update(updates) has set it
updateAccount(a, isActive) ==
  LET was == registry[a] = "active"
      now == isActive
      off == ~isActive /\ was
      on == isActive /\ ~now
  IN /\ booted
     /\ calls < MaxCalls
     /\ calls' = calls + 1
     /\ registry[a] # "absent"
     /\ IF off THEN disconnectAccount("routes", a)
        ELSE /\ conns' = IF on THEN connectToAccount(conns, "routes", a) ELSE conns
             /\ UNCHANGED <<connections, timers, idleTimeouts, isIdle>>
     /\ registry' = [registry EXCEPT ![a] = IF isActive THEN "active" ELSE "inactive"]
     /\ UNCHANGED <<booted, idleSupported, mailbox, index, idleOpen, mailEv, runs, procs,
                    exited, lastSync, batch, edit, meta, effects, docs, done>>

deleteAccount(a) ==
  /\ booted
  /\ calls < MaxCalls
  /\ calls' = calls + 1
  /\ registry[a] # "absent"
  /\ disconnectAccount("routes", a)
  /\ registry' = [registry EXCEPT ![a] = "absent"]
  /\ UNCHANGED <<booted, idleSupported, mailbox, index, idleOpen, mailEv, runs, procs,
                    exited, lastSync, batch, edit, meta, effects, docs, done>>

\* POST /accounts/:id/test: await connectToAccount(account), which returns
\* once imap.connect() is issued, then 'Connection test successful' is sent;
\* 'Connection test failed' is the answer to a connectToAccount that throws
testAnswer(thrown) == IF thrown THEN "failed" ELSE "successful"

testConnection(a) ==
  /\ booted
  /\ calls < MaxCalls
  /\ calls' = calls + 1
  /\ registry[a] # "absent"
  /\ Len(conns) < MaxConns
  /\ conns' = [connectToAccount(conns, "routes", a)
                 EXCEPT ![Len(conns) + 1].test = testAnswer(FALSE)]
  /\ UNCHANGED <<registry, booted, idleSupported, mailbox, index, connections, isIdle,
                 idleTimeouts, timers, idleOpen, mailEv, runs, procs,
                    exited, lastSync, batch, edit, meta, effects, docs, done>>

\* POST /accounts/:id/sync
syncEmails(a) ==
  /\ booted
  /\ calls < MaxCalls
  /\ calls' = calls + 1
  /\ registry[a] # "absent"
  /\ forceEmailSync("routes", a, TRUE)
  /\ UNCHANGED <<registry, booted, idleSupported, mailbox, index, connections, isIdle,
                 idleTimeouts, timers, idleOpen, mailEv, procs,
                    exited, lastSync, batch, edit, meta, effects, docs, done>>

\* POST /accounts/:id/sync with days = d in the body
syncEmailsDays(a, d) ==
  /\ booted
  /\ calls < MaxCalls
  /\ calls' = calls + 1
  /\ registry[a] # "absent"
  /\ Len(conns) < MaxConns
  /\ Len(runs) < MaxRuns
  /\ conns' = Append(conns, NewConn("routes", a, TRUE))
  /\ runs' = Append(NoteSignal(runs, a, TRUE),
                    [NewRun("routes", a, "force", Len(conns) + 1, "connecting")
                       EXCEPT !.days = d])
  /\ UNCHANGED <<registry, booted, idleSupported, mailbox, index, connections, isIdle,
                 idleTimeouts, timers, idleOpen, mailEv, procs,
                 exited, lastSync, batch, edit, meta, effects, docs, done>>

\* ------------------------------------------------------------ specification
\* what the event loop runs by itself: events, callbacks and timers that are due
Lifecycle ==
  \/ initializeApp
  \/ \E c \in ConnIds :
       \/ ReadyPersistent(c)
       \/ ReadyTemp(c)
       \/ EndPersistent(c)
  \/ \E i \in Instances, a \in Accounts :
       \/ startIdleMode(i, a)
       \/ refreshIdleMode(i, a)
       \/ reconnectAccount(i, a)
  \/ \E x \in idleOpen : startIdleOpened(x)
  \/ \E r \in RunIds :
       \/ RunOpened(r)
       \/ RunBroken(r)

\* the steps of a run over a mailbox that holds messages
Messages ==
  \/ \E r \in RunIds :
       \/ FetchMessage(r)
       \/ FetchEnd(r)
  \/ \E p \in procs :
       \/ ProcessLookup(p)
       \/ ProcessIndex(p)

\* poll timers exist only where imap.idle is no function
Poll == \E i \in Instances, a \in Accounts : pollForNewEmails(i, a)

MailEvent == \E c \in ConnIds : handleNewMail(c)

Supervisor == Lifecycle \/ Messages \/ MailEvent

\* the accounts exist at start-up; the mail server delivers mail and drops
\* connections, users ask for a sync
Traffic ==
  \/ \E a \in Accounts :
       \/ syncEmails(a)
       \/ MailArrives(a)
  \/ \E c \in ConnIds : Drop(c)

Next == Supervisor \/ Poll \/ Traffic

Spec == Init /\ [][Next]_vars

\* a build whose connections support idle(): every event, callback and timer
\* that is due runs; users, the mail server and the network owe nothing
IdleInit == Init /\ idleSupported

IdleNext == Supervisor \/ Traffic

FairSpec == IdleInit /\ [][IdleNext]_vars /\ WF_vars(Supervisor)

\* users manage accounts through the account API; the mailboxes stay empty
Admin ==
  \E a \in Accounts :
    \/ createAccount(a)
    \/ createAccountSync(a)
    \/ \E isActive \in BOOLEAN : updateAccount(a, isActive)
    \/ deleteAccount(a)
    \/ testConnection(a)

AdminNext == Lifecycle \/ Poll \/ Admin

AdminSpec == Init /\ [][AdminNext]_vars

\* the same with connections that fail: the login is refused or the
\* transport breaks, on a connection of either instance and on the temporary
\* connection of a poll or a sync; an event, a callback, a timer or a request
\* is served while the process runs, nothing once it has exited
ErrorNext ==
  \/ ~exited /\ initializeApp
  \/ \E c \in ConnIds :
       \/ ~exited /\ ReadyPersistent(c)
       \/ ~exited /\ ReadyTemp(c)
       \/ ~exited /\ EndPersistent(c)
       \/ ~exited /\ ConnError(c)
  \/ \E i \in Instances, a \in Accounts :
       \/ ~exited /\ startIdleMode(i, a)
       \/ ~exited /\ refreshIdleMode(i, a)
       \/ ~exited /\ reconnectAccount(i, a)
       \/ ~exited /\ pollForNewEmails(i, a)
  \/ \E x \in idleOpen : ~exited /\ startIdleOpened(x)
  \/ \E r \in RunIds :
       \/ ~exited /\ RunOpened(r)
       \/ ~exited /\ RunBroken(r)
       \/ ~exited /\ TempError(r)
  \/ \E a \in Accounts :
       \/ ~exited /\ createAccount(a)
       \/ ~exited /\ createAccountSync(a)
       \/ \E isActive \in BOOLEAN : ~exited /\ updateAccount(a, isActive)
       \/ ~exited /\ deleteAccount(a)
       \/ ~exited /\ testConnection(a)

ErrorSpec == Init /\ [][ErrorNext]_vars

\* the sync scenario: the server is up, the account is active and holds no
\* connection (an account activated through updateAccount is never connected),
\* its mailbox holds ScenarioMail messages of which ScenarioIndexed have a
\* record, and one sync is requested
Indexed == {1..ScenarioIndexed,
            (ScenarioMail - ScenarioIndexed + 1)..ScenarioMail,
            {m \in Msgs : m % (ScenarioMail \div ScenarioIndexed) = 1}}

SyncInit ==
  /\ registry = [a \in Accounts |-> "active"]
  /\ booted = TRUE
  /\ calls = 0
  /\ idleSupported = TRUE
  /\ mailbox = [a \in Accounts |-> [k \in 1..ScenarioMail |-> k]]
  /\ \E S \in Indexed :
       index = [a \in IndexAccounts |->
                  [m \in Msgs |-> IF a \in Accounts /\ m \in S THEN 1 ELSE 0]]
  /\ conns = <<>>
  /\ connections = [i \in Instances |-> [a \in Accounts |-> 0]]
  /\ isIdle = [i \in Instances |-> [a \in Accounts |-> "unset"]]
  /\ idleTimeouts = [i \in Instances |-> [a \in Accounts |-> NoTimer]]
  /\ timers = [i \in Instances |-> [a \in Accounts |-> [k \in TimerKinds |-> 0]]]
  /\ idleOpen = {}
  /\ mailEv = {}
  /\ runs = <<>>
  /\ procs = {}
  /\ meta = [m \in Msgs |-> Plain]
  /\ effects = [a \in Accounts |-> [m \in Msgs |-> NoEffects]]
  /\ docs = {}
  /\ done = {}
  /\ exited = FALSE
  /\ lastSync = [a \in Accounts |-> 0]
  /\ batch = NoBatch
  /\ edit = NoEdit

OneSync == \E a \in Accounts : runs = <<>> /\ syncEmails(a)

SyncNext ==
  \/ OneSync
  \/ \E c \in ConnIds : ReadyTemp(c)
  \/ \E r \in RunIds : RunOpened(r)
  \/ Messages

SyncSpec == SyncInit /\ [][SyncNext]_vars

\* the pipeline scenario: the server is up, the account is active and holds
\* no connection, its mailbox holds PipeMail messages of any age and category;
\* message 1 may have a record that belongs to another account, message 2 one
\* of the account itself; a sync is requested with days = WindowDays or with
\* the default, and every call processEmail makes may fail
Ages == {0, StaleDays, RetentionDays, RetentionDays + 1}

PipeInitWith(n, records) ==
  /\ registry = [a \in Accounts |-> "active"]
  /\ booted = TRUE
  /\ calls = 0
  /\ idleSupported = TRUE
  /\ mailbox = [a \in Accounts |-> [k \in 1..n |-> k]]
  /\ \E other, own \in records :
       index = [a \in IndexAccounts |->
                  [m \in Msgs |-> IF \/ a \notin Accounts /\ m = 1 /\ other
                                     \/ a \in Accounts /\ m = n /\ own
                                  THEN 1 ELSE 0]]
  /\ \E g \in Ages, c \in {"interested", "spam"} :
       meta = [m \in Msgs |-> IF m = 1 THEN [age |-> g, category |-> c] ELSE Plain]
  /\ conns = <<>>
  /\ connections = [i \in Instances |-> [a \in Accounts |-> 0]]
  /\ isIdle = [i \in Instances |-> [a \in Accounts |-> "unset"]]
  /\ idleTimeouts = [i \in Instances |-> [a \in Accounts |-> NoTimer]]
  /\ timers = [i \in Instances |-> [a \in Accounts |-> [k \in TimerKinds |-> 0]]]
  /\ idleOpen = {}
  /\ mailEv = {}
  /\ runs = <<>>
  /\ procs = {}
  /\ effects = [a \in Accounts |-> [m \in Msgs |-> NoEffects]]
  /\ docs = {}
  /\ done = {}
  /\ exited = FALSE
  /\ lastSync = [a \in Accounts |-> 0]
  /\ batch = NoBatch
  /\ edit = NoEdit

PipeInit == PipeInitWith(PipeMail, BOOLEAN)

\* a sync run on its temporary connection, processEmail step by step
Pipeline ==
  \/ \E c \in ConnIds : ReadyTemp(c)
  \/ \E r \in RunIds :
       \/ RunOpened(r)
       \/ FetchMessage(r)
       \/ FetchUnparsed(r)
       \/ FetchEnd(r)
  \/ \E p \in procs :
       \/ ProcessLookup(p)
       \/ Categorised(p)
       \/ Replied(p)
       \/ IndexReturns(p)
       \/ SlackReturns(p)
       \/ WebhookReturns(p)

PipeNext ==
  \/ \E a \in Accounts, d \in {WindowDays, InitialDays} : runs = <<>> /\ syncEmailsDays(a, d)
  \/ Pipeline

PipelineSpec == PipeInit /\ [][PipeNext]_vars

\* the same with one message, no record of it anywhere, and the sync
\* requested more than once
RerunInit == PipeInitWith(1, {FALSE}) /\ meta[1].age = 0

RerunNext ==
  \/ \E a \in Accounts : syncEmails(a)
  \/ Pipeline

RerunSpec == RerunInit /\ [][RerunNext]_vars

\* the same again, and the connection of a sync may fail at any stage:
\* connecting, opening the mailbox, searching, fetching
SyncFailNext ==
  \/ \E a \in Accounts : syncEmails(a)
  \/ Pipeline
  \/ \E r \in RunIds : TempError(r)

SyncFailSpec == RerunInit /\ [][SyncFailNext]_vars

\* ------------------------------------------------------------------ claims

\* C1: in every reachable state the search index holds at most one record
\* for each (account, message identifier), however ingestion runs and the
\* processEmail calls inside them interleave.
C1_AtMostOneRecord ==
  \A a \in Accounts, m \in Msgs : index[a][m] <= 1

\* C2: for every account at most one ingestion run is in flight at any time.
C2_SingleFlight ==
  \A a \in Accounts : Cardinality(RunsInFlight(a)) <= 1

\* C3: the change signals ('mail' events, sync requests) that arrive while a
\* run is in flight start one additional run between them: never more than
\* one, and not zero once the run is over.
C3_ExactlyOneExtraRun ==
  \A r \in RunIds :
    /\ runs[r].extra <= 1
    /\ (runs[r].sigs > 0 /\ ~RunInFlight(r)) => runs[r].extra = 1

\* C4: in every reachable state each account has at most one open
\* mail-protocol connection, persistent and temporary ones counted together.
C4_OneLiveConnection ==
  \A a \in Accounts : Cardinality(LiveConns(a)) <= 1

\* the account has a table entry for an open connection with INBOX selected
\* and startIdleMode has put it in idle mode
Listening(a) ==
  \E i \in Instances :
    /\ connections[i][a] # 0
    /\ conns[connections[i][a]].st = "ready"
    /\ conns[connections[i][a]].box
    /\ isIdle[i][a] = "true"

MailPending(a) == \E c \in mailEv : conns[c].acct = a /\ connections[conns[c].inst][a] = c

\* a connection made by connectToAccount after connection c, still to open or open
Reconnected(c) ==
  \E d \in ConnIds :
    /\ d > c
    /\ conns[d].acct = conns[c].acct
    /\ ~conns[d].temp
    /\ conns[d].st \in {"connecting", "ready"}

\* the mail server or the network has dropped a connection of the account
Dropped(a) == \E c \in ConnIds : conns[c].acct = a /\ conns[c].st = "dropped"

\* refreshIdleMode has torn a connection of the account down
Refreshing(a) == \E i \in Instances : timers[i][a]["reconnect"] > 0

\* C5: a 'mail' event for a connected, listening account leads to the new
\* message being indexed and to the account being connected and listening
\* again (unless the network drops the connection or the idle refresh tears
\* it down meanwhile).
C5_MailIsIngestedAndListeningResumes ==
  \A a \in Accounts :
    (MailPending(a) /\ Listening(a))
      ~> \/ /\ mailbox[a] # <<>>
            /\ index[a][mailbox[a][Len(mailbox[a])]] > 0
            /\ Listening(a)
         \/ Dropped(a)
         \/ Refreshing(a)

\* C6: when the connection of an active, listening account is dropped the
\* supervisor goes on to Connecting (or connected) again, and no message has
\* a second record.
C6_DropLeadsToReconnect ==
  \A c \in 1..MaxConns :
    (/\ c \in ConnIds
     /\ conns[c].st = "dropped"
     /\ registry[conns[c].acct] = "active"
     /\ isIdle[conns[c].inst][conns[c].acct] = "true")
      ~> (c \in ConnIds /\ Reconnected(c) /\ C1_AtMostOneRecord)

\* C7: after refreshIdleMode has torn the connection down the account has a
\* connection again (connecting or open).
C7_RefreshLeadsToReconnect ==
  \A c \in 1..MaxConns :
    (/\ c \in ConnIds
     /\ timers[conns[c].inst][conns[c].acct]["reconnect"] > 0
     /\ conns[c].st \in {"ending", "ended"}
     /\ ~conns[c].temp)
      ~> (c \in ConnIds /\ Reconnected(c))

\* the runs made for an account (a sync request that threw before it made a
\* connection is none)
RunsOf(a) == {r \in RunIds : runs[r].acct = a /\ runs[r].conn # 0}

\* C8: once an account is deactivated or deleted, no ingestion run is
\* started for it and no poll is scheduled for it.
C8_NoRunAfterDeactivation ==
  [][\A a \in Accounts :
       (registry[a] # "active" /\ registry'[a] # "active")
         => /\ RunsOf(a)' = RunsOf(a)
            /\ \A i \in Instances : timers'[i][a]["poll"] <= timers[i][a]["poll"]]_vars

\* C9: when deleteAccount or a deactivating updateAccount returns, the
\* account has no open connection and no entry in a connection table or an
\* idle table, whichever IMAPService instance opened its connection.
C9_DisconnectedAfterDeactivation ==
  [][\A a \in Accounts :
       (registry[a] = "active" /\ registry'[a] # "active")
         => /\ LiveConns(a)' = {}
            /\ \A i \in Instances : connections'[i][a] = 0 /\ isIdle'[i][a] = "unset"]_vars

\* C10: when a sync run over the scenario mailbox is over it has reported
\* processedCount = ScenarioMail (or the batch size), every message of the
\* mailbox has exactly one record (the ScenarioMail - ScenarioIndexed others
\* were created, the ScenarioIndexed records that existed are as they were).
C10_SyncIngestsTheOthers ==
  \A r \in RunIds :
    (runs[r].kind = "force" /\ runs[r].st = "resolved" /\ ~RunInFlight(r))
      => /\ runs[r].logged \in {ScenarioMail, BatchSize}
         /\ \A k \in 1..Len(mailbox[runs[r].acct]) :
              index[runs[r].acct][mailbox[runs[r].acct][k]] = 1

\* messages a processEmail call has dealt with
Processed == {d \in done : d.pc # "parseFailed"}

\* C11: processEmail creates no record for a message dated before the
\* retention horizon: such a message ends as duplicate or too old; a message
\* dated at the horizon is not dropped as too old, and only a message older
\* than the horizon is.
C11_RetentionHorizon ==
  /\ \A d \in docs : meta[d.msg].age <= RetentionDays
  /\ \A d \in Processed :
       /\ meta[d.msg].age > RetentionDays => d.pc \in {"duplicate", "tooOld"}
       /\ d.pc = "tooOld" => meta[d.msg].age > RetentionDays

\* a message one day older than the horizon was dropped, or one dated at the
\* horizon was indexed
C11_Witness ==
  \E d \in Processed :
    \/ d.pc = "tooOld" /\ meta[d.msg].age = RetentionDays + 1
    \/ d.pc = "indexed" /\ meta[d.msg].age = RetentionDays

\* C12: a run called with days = d creates no record for a message older
\* than d days.
C12_NothingOlderThanTheWindow ==
  \A d \in Processed : d.pc = "indexed" => meta[d.msg].age <= runs[d.run].days

\* C13: a record made after the classification call failed, timed out or
\* answered with a malformed response has the fallback category and a
\* confidence below every confidence a classification comes with.
C13_FallbackIsRecognisable ==
  \A d \in docs :
    d.via # "classified"
      => /\ d.category = "spam"
         /\ d.confidence \in 0..Percent
         /\ \A c \in GenuineConfidences : d.confidence < c

\* calls in flight or over that went past the duplicate and date checks
Enriched(m) ==
  {x \in procs \cup done :
     x.msg = m /\ x.pc \notin {"lookup", "duplicate", "tooOld", "parseFailed"}}

\* C14: over all runs, a message classified 'interested' and indexed gets a
\* reply request and exactly one dispatch attempt on each channel, never
\* more; a message never classified 'interested' gets none.
C14_OneDispatchPerInterestedMessage ==
  \A a \in Accounts, m \in Msgs :
    LET e == effects[a][m]
    IN /\ e.slack <= 1
       /\ e.webhook <= 1
       /\ \A d \in done :
            (d.msg = m /\ d.pc = "indexed" /\ d.category = "interested")
              => e.reply >= 1 /\ e.slack = 1 /\ e.webhook = 1
       /\ (\A x \in Enriched(m) : x.category # "interested")
            => e.slack = 0 /\ e.webhook = 0

\* C15: a processEmail call whose reply generation failed goes on: it ends
\* with the message indexed, or with the index request itself failing; when
\* it ends indexed, the document has no suggested reply, both dispatches were
\* attempted and 'newEmail' was emitted.
C15_ReplyFailureDoesNotBlock ==
  /\ \A x \in procs : x.reply = "failed" => x.pc \in {"index", "slack", "webhook"}
  /\ \A d \in done :
       d.reply = "failed"
         => /\ d.pc \in {"indexed", "indexFailed"}
            /\ d.pc = "indexed"
                 => LET a == runs[d.run].acct
                        e == effects[a][d.msg]
                    IN /\ index[a][d.msg] > 0
                       /\ \E doc \in docs : /\ doc.acct = a
                                            /\ doc.msg = d.msg
                                            /\ ~doc.suggestedReply
                       /\ e.slack >= 1 /\ e.webhook >= 1 /\ e.newEmail >= 1

\* reply generation failed for a message and the message was indexed
C15_Witness ==
  \E d \in done : d.reply = "failed" /\ d.pc = "indexed" /\ d.category = "interested"

\* C16: for every message, dispatches and 'newEmail' events follow completed
\* upserts: never more dispatch attempts or events than upserts, none for a
\* message that was skipped or whose upsert failed, and once processEmail has
\* returned exactly one event for each upsert.
C16_SideEffectsFollowTheUpsert ==
  \A a \in Accounts, m \in Msgs :
    LET e == effects[a][m]
    IN /\ e.slack <= e.upsert
       /\ e.webhook <= e.slack
       /\ e.newEmail <= e.upsert
       /\ (\A x \in procs : x.msg # m) => e.newEmail = e.upsert
       /\ e.upsert = Cardinality({d \in done \cup procs :
                                    /\ d.msg = m
                                    /\ d.pc \in {"indexed", "slack", "webhook", "notifyFailed"}})

\* one message was indexed, notified and announced, another one's upsert
\* failed or was skipped
C16_Witness ==
  /\ procs = {}
  /\ \E d \in done : d.pc = "indexed" /\ d.category = "interested"
                     /\ effects[runs[d.run].acct][d.msg].newEmail = 1
  /\ \E d \in done : d.pc \in {"indexFailed", "duplicate"}

\* C17: classification and reply generation are called only for a message
\* that had no record of its account at the lookup and that lies inside the
\* lookback window of its run, and only once per such processEmail call.
C17_ChecksBeforeEnrichment ==
  \A a \in Accounts, m \in Msgs :
    /\ effects[a][m].classify = Cardinality(Enriched(m))
    /\ effects[a][m].reply <= effects[a][m].classify
    /\ \A x \in Enriched(m) : ~x.own /\ meta[m].age <= runs[x.run].days

\* C18: a message is skipped as duplicate if and only if a record with its
\* identifier exists for its own account.
C18_NaturalKeyLookup ==
  \A d \in Processed : (d.pc = "duplicate") <=> d.own

\* C19: whatever the Slack send and the webhook send meet (delivered,
\* refused, an exception, nothing configured), processEmail goes on: the
\* message stays indexed and its 'newEmail' event is emitted.
C19_NotificationFailureIsSwallowed ==
  /\ \A x \in procs : x.slack # "none" => x.pc = "webhook"
  /\ \A d \in done :
       /\ d.pc # "notifyFailed"
       /\ d.slack # "none"
            => /\ d.pc = "indexed"
               /\ d.webhook # "none"
               /\ index[runs[d.run].acct][d.msg] > 0
               /\ effects[runs[d.run].acct][d.msg].newEmail >= 1

\* both sends failed with an exception, or nothing was configured, and
\* processEmail returned
C19_Witness ==
  /\ \E d \in done : d.slack = "error" /\ d.webhook = "error" /\ d.pc = "indexed"
  /\ procs = {}

\* the messages a run fetches
Batch(r) == {mailbox[runs[r].acct][k] : k \in 1..Len(Slice(mailbox[runs[r].acct]))}

\* C20: a failure of parsing, classification or the upsert for one message
\* neither rejects the run nor stops another message: a run that is over has
\* resolved, is through with every message of its batch, and a message ends
\* 'parseFailed' or 'indexFailed' only by its own failure.
C20_FailuresAreIsolated ==
  \A r \in RunIds :
    /\ runs[r].st # "rejected"
    /\ (runs[r].st = "resolved" /\ ~RunInFlight(r))
         => /\ \A m \in Batch(r) : \E d \in done : d.run = r /\ d.msg = m
            /\ runs[r].processedCount = Cardinality(Batch(r))

\* a run is over, one of its messages failed and another one was indexed
C20_Witness ==
  \E r \in RunIds :
    /\ runs[r].st = "resolved" /\ ~RunInFlight(r)
    /\ \E d \in done : d.run = r /\ d.pc \in {"parseFailed", "indexFailed"}
    /\ \E d \in done : d.run = r /\ d.pc = "indexed"

\* C21: a step in which a connection of an account gets its 'error' event
\* (on the server's IMAPService or on the one of the account routes) leaves
\* the process running and leaves every other account its table entry, its
\* timers and its idle flag.
C21_ErrorsAreContained ==
  [][\A c \in ConnIds :
       (conns[c].err = "none" /\ conns'[c].err # "none")
         => /\ ~exited'
            /\ \A b \in Accounts \ {conns[c].acct}, i \in Instances :
                 /\ connections'[i][b] = connections[i][b]
                 /\ timers'[i][b] = timers[i][b]
                 /\ idleTimeouts'[i][b] = idleTimeouts[i][b]
                 /\ isIdle'[i][b] = isIdle[i][b]]_vars

\* an attempt to reach the account has failed with an authentication error
AuthFailed(a) == \E c \in ConnIds : conns[c].acct = a /\ conns[c].err = "auth"

\* this step makes a connection for the account from a timer: a poll
PollAttempt(a) ==
  /\ Len(conns') > Len(conns)
  /\ conns'[Len(conns')].acct = a
  /\ Len(runs') > Len(runs)
  /\ runs'[Len(runs')].kind = "poll"

\* C22: once a connection or a poll of an account has failed with an
\* authentication error, no timer makes another connection for the account.
C22_AuthFailureIsTerminal ==
  [][\A a \in Accounts : AuthFailed(a) => ~PollAttempt(a)]_vars

\* the polls of an account, and the RetryCap latest of them
PollRuns(a) == {r \in RunIds : runs[r].acct = a /\ runs[r].kind = "poll"}

LastPolls(a) == {r \in PollRuns(a) : Cardinality({q \in PollRuns(a) : q > r}) < RetryCap}

\* the RetryCap latest attempts to reach the account all failed on the transport
RetriesExhausted(a) ==
  /\ Cardinality(LastPolls(a)) = RetryCap
  /\ \A r \in LastPolls(a) :
       runs[r].st = "rejected" /\ conns[runs[r].conn].err = "transport"

\* C23: retrying after transport errors is capped: once RetryCap attempts in
\* a row have failed on the transport, no retry is pending for the account.
C23_RetriesAreCapped ==
  \A a \in Accounts :
    RetriesExhausted(a) => \A i \in Instances : timers[i][a]["poll"] = 0

\* run r resolves in this step: its batch is complete
Resolves(r) == runs[r].st # "resolved" /\ runs'[r].st = "resolved"

\* C24: a step in which a run of an account of the registry resolves,
\* whatever started the run (the initial fetch at 'ready', a 'mail' event, a
\* poll, a sync request), sets the account's lastSync.
C24_LastSyncAfterEveryBatch ==
  [][\A r \in RunIds :
       (Resolves(r) /\ registry[runs[r].acct] # "absent")
         => lastSync'[runs[r].acct] > lastSync[runs[r].acct]]_vars

\* the sync requests made for an account
Syncs(a) == {r \in RunIds : runs[r].acct = a /\ runs[r].kind = "force"}

\* the sync met an unknown account, or an error on its connection (while
\* connecting, opening the mailbox, searching or fetching)
SyncFailed(r) == runs[r].conn = 0 \/ conns[runs[r].conn].err # "none"

\* C25: a sync that failed at connection level has thrown to its caller, and
\* lastSync was set at most once for each sync of the account that resolved:
\* a failed sync leaves it as it was.
C25_FailedSyncLeavesLastSync ==
  \A a \in Accounts :
    /\ \A r \in Syncs(a) : SyncFailed(r) => runs[r].st = "rejected"
    /\ lastSync[a] <= Cardinality({r \in Syncs(a) : runs[r].st = "resolved"})

\* a sync failed on its connection after the mailbox was opened, and lastSync
\* is as it was at the start
C25_Witness ==
  \E a \in Accounts : \E r \in Syncs(a) :
    /\ runs[r].conn # 0
    /\ conns[runs[r].conn].err # "none"
    /\ conns[runs[r].conn].box
    /\ runs[r].st = "rejected"
    /\ lastSync[a] = 0

\* the instance holds an open connection of the account with the mailbox
\* selected, and startIdleMode has chosen its mode
ModeChosen(i, a) ==
  /\ registry[a] = "active"
  /\ connections[i][a] # 0
  /\ conns[connections[i][a]].st = "ready"
  /\ conns[connections[i][a]].box
  /\ isIdle[i][a] # "unset"

\* a poll of the account is under way on the instance
Polling(i, a) ==
  \E r \in RunIds :
    /\ runs[r].inst = i /\ runs[r].acct = a /\ runs[r].kind = "poll"
    /\ runs[r].st \in {"connecting", "opening", "fetching"}

Categories == {"interested", "meeting_booked", "not_interested", "spam", "out_of_office"}

\* C27: every document ingestion writes has a category of the closed set and
\* a confidence between 0 and 1, whatever the classifier answered.
C27_ClosedCategoryUnitConfidence ==
  \A d \in docs : d.category \in Categories /\ d.confidence \in 0..Percent

\* ------------------------------------------------- ElasticsearchService.updateEmail
\* the times new Date().toISOString() can return, in order
Times == {"t1", "t2", "t3"}

\* the documents indexEmail stores (the fields the updates below can name,
\* and the identifying ones)
Emails ==
  [accountId : {"a1"}, messageId : {"m1"}, subject : {"s1", "s2"},
   folder : {"INBOX"}, isRead : BOOLEAN, category : {"none", "spam"},
   aiConfidence : {0, FallbackConfidence}, suggestedReply : {"", "reply"},
   updatedAt : {"t1"}]

\* the bodies callers pass as updates: EmailController.categorizeEmail,
\* generateSuggestedReply, and req.body of PUT /emails/:id
Updates ==
  { [category |-> "interested", aiCategory |-> "interested", aiConfidence |-> LocalLow],
    [category |-> "spam", aiCategory |-> "spam", aiConfidence |-> FallbackConfidence],
    [suggestedReply |-> "reply"],
    [isRead |-> TRUE],
    [subject |-> "s2", isRead |-> FALSE],
    [updatedAt |-> "t1"],
    [reviewed |-> TRUE] }

\* an index request in place of the partial update: the body becomes the document
replaceDocument(d, body) == body

\* the update API with a partial document: the fields of doc are merged into
\* the stored document, the others stay
partialUpdate(d, body) ==
  [f \in DOMAIN d \cup DOMAIN body |-> IF f \in DOMAIN body THEN body[f] ELSE d[f]]

\* doc: {...updates, updatedAt: new Date().toISOString()}
UpdateBody(updates, now) ==
  [f \in DOMAIN updates \cup {"updatedAt"} |->
     IF f = "updatedAt" THEN now ELSE updates[f]]

\* elasticsearchClient.index of indexEmail: the document is stored
indexDocument(d) ==
  /\ edit.st = "none"
  /\ edit' = [st |-> "indexed", before |-> d, updates |-> <<>>, doc |-> d]
  /\ UNCHANGED <<registry, booted, calls, idleSupported, mailbox, index, conns,
                 connections, isIdle, idleTimeouts, timers, idleOpen, mailEv, runs,
                 procs, exited, lastSync, batch, meta, effects, docs, done>>

\* updateEmail(id, updates); ok = FALSE: the client rejects and the error is
\* rethrown, nothing is written
updateEmail(updates, now, ok) ==
  /\ edit.st # "none"
  /\ edit' = IF ok
             THEN [st |-> "updated", before |-> edit.doc, updates |-> updates,
                   doc |-> partialUpdate(edit.doc, UpdateBody(updates, now))]
             ELSE [st |-> "failed", before |-> edit.doc, updates |-> updates,
                   doc |-> edit.doc]
  /\ UNCHANGED <<registry, booted, calls, idleSupported, mailbox, index, conns,
                 connections, isIdle, idleTimeouts, timers, idleOpen, mailEv, runs,
                 procs, exited, lastSync, batch, meta, effects, docs, done>>

UpdateNext ==
  \/ \E d \in Emails : indexDocument(d)
  \/ \E updates \in Updates, now \in Times, ok \in BOOLEAN : updateEmail(updates, now, ok)

UpdateSpec == Init /\ [][UpdateNext]_vars

\* the fields of the stored document that the last update did not name
Untouched == DOMAIN edit.before \ DOMAIN edit.updates

BatchImpls == {"ai-local", "ai-remote", "huggingface"}

\* const batchSize
batchSize(impl) ==
  CASE impl = "ai-local" -> LocalBatchSize
    [] impl = "ai-remote" -> RemoteBatchSize
    [] OTHER -> HuggingFaceBatchSize

\* emails.slice(i, i + batchSize), as positions 1..n
EmailsSlice(n, i, size) == {k \in 1..n : i < k /\ k <= i + size}

\* a continuation that runs once the first promise of the batch has settled
PromiseRace(pending, sliced) == pending # sliced

\* await Promise.all(batchPromises): categorizeEmail catches every error and
\* fulfils, so the await continues when no promise of the batch is pending
PromiseAll(pending, sliced) == pending = {}

\* batchCategorizeEmails(emails) up to its first await: the first slice is
\* mapped to categorizeEmail calls; no email, the loop is not entered
batchCategorizeEmails(impl, n) ==
  /\ batch.st = "none"
  /\ batch' = IF n = 0
              THEN [impl |-> impl, emails |-> 0, i |-> 0, pending |-> {},
                    results |-> 0, st |-> "returned"]
              ELSE [impl |-> impl, emails |-> n, i |-> 0,
                    pending |-> EmailsSlice(n, 0, batchSize(impl)),
                    results |-> 0, st |-> "awaiting"]
  /\ UNCHANGED <<registry, booted, calls, idleSupported, mailbox, index, conns,
                 connections, isIdle, idleTimeouts, timers, idleOpen, mailEv, runs,
                 procs, exited, lastSync, edit, meta, effects, docs, done>>

\* one categorizeEmail promise settles (with the provider's answer or the
\* fallback of a catch block)
categorizeEmailSettles(k) ==
  /\ k \in batch.pending
  /\ batch' = [batch EXCEPT !.pending = @ \ {k}]
  /\ UNCHANGED <<registry, booted, calls, idleSupported, mailbox, index, conns,
                 connections, isIdle, idleTimeouts, timers, idleOpen, mailEv, runs,
                 procs, exited, lastSync, edit, meta, effects, docs, done>>

\* the await of Promise.all continues: results.push(...batchResults); a further
\* slice exists: the delay timer is set; none: the loop ends, results returned
batchResolved ==
  /\ batch.st = "awaiting"
  /\ PromiseAll(batch.pending, EmailsSlice(batch.emails, batch.i, batchSize(batch.impl)))
  /\ LET size == batchSize(batch.impl)
         more == batch.i + size < batch.emails
     IN batch' = [batch EXCEPT
                    !.results = @ + Cardinality(EmailsSlice(batch.emails, batch.i, size)),
                    !.i = IF more THEN @ ELSE @ + size,
                    !.st = IF more THEN "delay" ELSE "returned"]
  /\ UNCHANGED <<registry, booted, calls, idleSupported, mailbox, index, conns,
                 connections, isIdle, idleTimeouts, timers, idleOpen, mailEv, runs,
                 procs, exited, lastSync, edit, meta, effects, docs, done>>

\* the delay timer fires: i += batchSize, the next slice is mapped to calls
batchDelayOver ==
  /\ batch.st = "delay"
  /\ LET size == batchSize(batch.impl)
     IN batch' = [batch EXCEPT
                    !.i = @ + size,
                    !.pending = @ \cup EmailsSlice(batch.emails, batch.i + size, size),
                    !.st = "awaiting"]
  /\ UNCHANGED <<registry, booted, calls, idleSupported, mailbox, index, conns,
                 connections, isIdle, idleTimeouts, timers, idleOpen, mailEv, runs,
                 procs, exited, lastSync, edit, meta, effects, docs, done>>

BatchNext ==
  \/ \E impl \in BatchImpls, n \in 0..MaxBatchMail : batchCategorizeEmails(impl, n)
  \/ \E k \in 1..MaxBatchMail : categorizeEmailSettles(k)
  \/ batchResolved
  \/ batchDelayOver

BatchSpec == Init /\ [][BatchNext]_vars

\* a step that maps a slice to categorizeEmail calls
BatchStarts == batch'.st = "awaiting" /\ (batch.st # "awaiting" \/ batch'.i # batch.i)

\* C29: during batchCategorizeEmails at most batchSize requests are in flight,
\* batchSize being between 3 and 10; the requests in flight all belong to the
\* current slice, so a batch starts only when every request of the one before
\* has settled; and every batch but the first starts from the delay.
C29_BoundedSequentialBatches ==
  /\ [](batch.st # "none"
          => /\ batchSize(batch.impl) \in 3..10
             /\ Cardinality(batch.pending) <= batchSize(batch.impl)
             /\ batch.pending \subseteq EmailsSlice(batch.emails, batch.i, batchSize(batch.impl)))
  /\ [][BatchStarts
          => /\ batch.pending = {}
             /\ batch'.i > 0 => batch.st = "delay"]_vars

\* the second batch is in flight, full, and the first one's results are in
C29_Witness ==
  /\ batch.st = "awaiting"
  /\ batch.i > 0
  /\ Cardinality(batch.pending) = batchSize(batch.impl)
  /\ batch.results = batch.i

\* ------------------------------------------------ updateAccount and isActive
\* connectToAccount(account) was called on the routes' service in this step
Connects(a) ==
  /\ Len(conns') = Len(conns) + 1
  /\ conns'[Len(conns')] = NewConn("routes", a, FALSE)

\* disconnectAccount(id) was called on the routes' service in this step
Disconnects(a) ==
  /\ connections'["routes"][a] = 0
  /\ isIdle'["routes"][a] = "unset"
  /\ idleTimeouts'["routes"][a] = NoTimer
  /\ conns' = EndConn(conns, connections["routes"][a])

\* nothing of the routes' service changed in this step
NeitherConnectsNorDisconnects ==
  UNCHANGED <<conns, connections, isIdle, idleTimeouts, timers>>

\* updateAccount activates an account stored as inactive
Activation(a) == updateAccount(a, TRUE) /\ registry[a] = "inactive"

\* updateAccount deactivates an account stored as active
Deactivation(a) == updateAccount(a, FALSE) /\ registry[a] = "active"

\* updateAccount with the isActive the account already has
SameActivity(a) ==
  \/ updateAccount(a, TRUE) /\ registry[a] = "active"
  \/ updateAccount(a, FALSE) /\ registry[a] = "inactive"

\* C30: updateAccount with isActive=true on an account stored as inactive calls
\* connectToAccount for it, with isActive=false on an active account it
\* disconnects it, and with an unchanged isActive it does neither.
C30_ActivationConnects ==
  [][\A a \in Accounts :
       /\ Activation(a) => Connects(a)
       /\ Deactivation(a) => Disconnects(a)
       /\ SameActivity(a) => NeitherConnectsNorDisconnects]_vars

\* ---------------------------------------------------------- testConnection
\* the connections testConnection made
Tests == {c \in ConnIds : conns[c].test # "none"}

\* the handshake of the connection succeeded: 'ready' was emitted
HandshakeDone(c) == conns[c].st \in {"ready", "ending", "ended", "dropped"} \/ conns[c].box

\* the handshake of the connection failed: 'error' before 'ready'
HandshakeFailed(c) == conns[c].st = "failed" /\ conns[c].err = "auth"

\* C31: testConnection answers 'Connection test successful' only if the
\* handshake succeeded and 'Connection test failed' when it did not, and no
\* event of the connection it made changes the connection table or the timers
\* of the account.
C31_TestReportsTheHandshake ==
  /\ [](\A c \in Tests :
          /\ conns[c].test = "successful" => HandshakeDone(c)
          /\ HandshakeFailed(c) => conns[c].test = "failed")
  /\ [][\A c \in Tests :
          conns'[c] # conns[c]
            => /\ connections'[conns[c].inst][conns[c].acct]
                    = connections[conns[c].inst][conns[c].acct]
               /\ timers'[conns[c].inst][conns[c].acct]
                    = timers[conns[c].inst][conns[c].acct]]_vars

\* ------------------------------------------------------- repeated sync runs
\* the process has been up for a while on a build without idle(): the server's
\* connection of the account is open with INBOX selected, the first poll timer
\* is pending; the mailbox holds n messages, all inside the lookback window,
\* of which the first `have` have a record
PollInitWith(n, have) ==
  /\ registry = [a \in Accounts |-> "active"]
  /\ booted = TRUE
  /\ calls = 0
  /\ idleSupported = FALSE
  /\ mailbox = [a \in Accounts |-> [m \in 1..n |-> m]]
  /\ index = [a \in IndexAccounts |->
                [m \in Msgs |-> IF a \in Accounts /\ m <= have THEN 1 ELSE 0]]
  /\ conns = [a \in 1..Cardinality(Accounts) |->
                [NewConn("server", CHOOSE x \in Accounts : TRUE, FALSE)
                   EXCEPT !.st = "ready", !.box = TRUE]]
  /\ connections = [i \in Instances |-> [a \in Accounts |-> IF i = "server" THEN 1 ELSE 0]]
  /\ isIdle = [i \in Instances |->
                 [a \in Accounts |-> IF i = "server" THEN idleFlag(FALSE) ELSE "unset"]]
  /\ idleTimeouts = [i \in Instances |->
                       [a \in Accounts |-> IF i = "server"
                                           THEN [kind |-> "poll", live |-> TRUE]
                                           ELSE NoTimer]]
  /\ timers = [i \in Instances |->
                 [a \in Accounts |->
                    [k \in TimerKinds |-> IF i = "server" /\ k = "poll" THEN 1 ELSE 0]]]
  /\ idleOpen = {}
  /\ mailEv = {}
  /\ runs = <<>>
  /\ procs = {}
  /\ meta = [m \in Msgs |-> Plain]
  /\ effects = [a \in Accounts |-> [m \in Msgs |-> NoEffects]]
  /\ docs = {}
  /\ done = {}
  /\ exited = FALSE
  /\ lastSync = [a \in Accounts |-> 0]
  /\ batch = NoBatch
  /\ edit = NoEdit

\* ScenarioMail messages, the first BatchSize - 1 with a record
PollLoopInit == PollInitWith(ScenarioMail, BatchSize - 1)

\* the promise of the poll is settled and its connection is still open
Leaked(r) ==
  /\ runs[r].kind = "poll"
  /\ runs[r].st = "rejected"
  /\ conns[runs[r].conn].st \in {"connecting", "ready"}

\* the last poll is over, its promise settled, its processEmail calls returned
\* and its connection closed: tempImap, the fetch and the parsed messages of
\* that call are garbage, the next call makes its own
PollOver ==
  /\ runs # <<>>
  /\ LET r == Len(runs)
         c == runs[r].conn
     IN /\ runs[r].kind = "poll"
        /\ runs[r].st \in {"resolved", "rejected"}
        /\ ~RunInFlight(r)
        /\ c = Len(conns)
        /\ conns[c].st \in {"ended", "failed"}
        /\ runs' = SubSeq(runs, 1, r - 1)
        /\ conns' = SubSeq(conns, 1, c - 1)
        /\ done' = {d \in done : d.run # r}
  /\ UNCHANGED <<registry, booted, calls, idleSupported, mailbox, index, connections,
                 isIdle, idleTimeouts, timers, idleOpen, mailEv, procs,
                 exited, lastSync, batch, edit, meta, effects, docs>>

\* the poll timer fires when the poll before it is long over (60 s later)
NextPoll ==
  /\ \A r \in RunIds : Leaked(r)
  /\ \E i \in Instances, a \in Accounts : pollForNewEmails(i, a)

PollLoopNext ==
  \/ NextPoll
  \/ \E c \in ConnIds : ReadyTemp(c)
  \/ \E r \in RunIds : RunOpened(r)
  \/ Messages
  \/ PollOver

\* every timer and callback that is due runs
PollLoopSpec == PollLoopInit /\ [][PollLoopNext]_vars /\ WF_vars(PollLoopNext)

\* C32: under repeated sync runs of an account whose mailbox holds more than
\* BatchSize messages, every message of the mailbox (all are inside the
\* lookback window) eventually has a record.
C32_EveryMessageIsIngested ==
  \A a \in Accounts, m \in Msgs :
    (Len(mailbox[a]) > BatchSize /\ m \in 1..Len(mailbox[a])) ~> (index[a][m] > 0)

\* ------------------------------------------------- the end of forceEmailSync
\* processEmail calls of run r that have not returned
Processing(r) == {p \in procs : p.run = r}

\* forceEmailSync has written lastSync, ended its connection and returned
Returned(r) ==
  /\ runs[r].kind = "force"
  /\ runs[r].st = "resolved"
  /\ lastSync[runs[r].acct] > 0
  /\ conns[runs[r].conn].st = "ended"

\* C33: once forceEmailSync has written lastSync, closed its temporary
\* connection and returned, no message of its batch is still being parsed,
\* enriched or indexed.
C33_LastSyncAfterTheBatch ==
  \A r \in RunIds : Returned(r) => Processing(r) = {}

\* ------------------------------------------------------ getConnectionStatus
\* getConnectionStatus(accountId) of an IMAPService
getConnectionStatus(i, a) ==
  [connected |-> connections[i][a] # 0, idle |-> isIdle[i][a] = "true"]

\* C34: getConnectionStatus never reports idle = true together with
\* connected = false: the idle flag of an account is true only while the
\* account has an entry in the connection table.
C34_IdleImpliesConnected ==
  \A i \in Instances, a \in Accounts :
    getConnectionStatus(i, a).idle => getConnectionStatus(i, a).connected

\* ------------------------------------------------------ the connection table
\* users manage accounts through the account API while the mail server or the
\* network may drop an open connection
TableNext ==
  \/ AdminNext
  \/ \E c \in ConnIds : Drop(c)

TableSpec == Init /\ [][TableNext]_vars

\* the connection is open, or end() was called on it and its 'end' is due
OpenOrClosing(cs, c) == cs[c].st \in {"ready", "ending"}

\* the table entry of the account is removed in this step although the
\* connection it refers to stays open
RemovesLiveEntry(i, a) ==
  /\ connections[i][a] # 0
  /\ connections'[i][a] = 0
  /\ conns'[connections[i][a]].st = "ready"

\* the table entry of the account is replaced in this step although the
\* connection it refers to is open
OverwritesLiveEntry(i, a) ==
  /\ connections[i][a] # 0
  /\ connections'[i][a] \notin {0, connections[i][a]}
  /\ conns[connections[i][a]].st = "ready"

\* C35: the table entry of an account refers to a connection that is open (or
\* closing at the request of the service, until its 'end' is delivered); no
\* 'end' of an older connection removes the entry of a newer open connection;
\* no 'ready' overwrites an entry whose connection is open.
C35_EntryIsTheLiveConnection ==
  /\ [](\A i \in Instances, a \in Accounts :
          connections[i][a] # 0 => OpenOrClosing(conns, connections[i][a]))
  /\ [][\A i \in Instances, a \in Accounts :
          ~RemovesLiveEntry(i, a) /\ ~OverwritesLiveEntry(i, a)]_vars

\* ------------------------------------------- the exits of a temporary connection
\* connections on which the mail server stops answering, over one behaviour
MaxSilent == 1

\* the mail server stops answering on the temporary connection of a poll after
\* the handshake (connTimeout and authTimeout bound the handshake itself): the
\* callback of openBox, search or fetch is never called
ServerSilent(r) ==
  /\ runs[r].kind = "poll"
  /\ runs[r].st \in {"opening", "fetching"}
  /\ conns[runs[r].conn].st = "ready"
  /\ Cardinality({q \in RunIds : runs[q].st = "hung" \/ Leaked(q)}) < MaxSilent
  /\ runs' = [runs EXCEPT ![r].st = "hung"]
  /\ UNCHANGED <<registry, booted, calls, idleSupported, mailbox, index, conns, connections,
                 isIdle, idleTimeouts, timers, idleOpen, mailEv, procs,
                 exited, lastSync, batch, edit, meta, effects, docs, done>>

\* the 60 second timer of Promise.race fires on a poll whose server is silent:
\* the race rejects, the catch block of pollForNewEmails schedules the retry
\* and records its handle; tempImap is not touched
PollTimeout(r) ==
  LET i == runs[r].inst
      a == runs[r].acct
  IN /\ runs[r].kind = "poll"
     /\ runs[r].st = "hung"
     /\ timers[i][a]["poll"] < MaxTimers
     /\ runs' = [runs EXCEPT ![r].st = "rejected", ![r].todo = <<>>]
     /\ timers' = Schedule(timers, i, a, "poll")
     /\ idleTimeouts' = [idleTimeouts EXCEPT ![i][a] = [kind |-> "poll", live |-> TRUE]]
     /\ UNCHANGED <<registry, booted, calls, idleSupported, mailbox, index, conns, connections,
                    isIdle, idleOpen, mailEv, procs,
                    exited, lastSync, batch, edit, meta, effects, docs, done>>

\* one message in the mailbox, no record yet
PollTimeoutInit == PollInitWith(MaxMail, 0)

\* the poll loop of an account against a server that may refuse the handshake,
\* break the connection or stop answering
PollTimeoutNext ==
  \/ NextPoll
  \/ \E c \in ConnIds : ReadyTemp(c)
  \/ \E r \in RunIds : RunOpened(r)
  \/ \E r \in RunIds : TempError(r)
  \/ \E r \in RunIds : ServerSilent(r)
  \/ \E r \in RunIds : PollTimeout(r)
  \/ Messages
  \/ PollOver

PollTimeoutSpec == PollTimeoutInit /\ [][PollTimeoutNext]_vars /\ WF_vars(PollTimeoutNext)

\* pollForNewEmails or forceEmailSync has left its run: the promise of the
\* run is settled
Exited(r) ==
  /\ runs[r].kind \in {"poll", "force"}
  /\ runs[r].st \in {"resolved", "rejected"}

\* the temporary connection is closed: end() was called on it, or it broke
\* with an 'error' event
Closed(c) == conns[c].st \in {"ended", "failed"}

\* C36: on every exit path of a run of pollForNewEmails or forceEmailSync
\* (completion, empty mailbox, mailbox-open, search or fetch error, connection
\* 'error' event, 60 second poll timeout) the temporary connection the run
\* opened is closed.
C36_TemporaryConnectionIsClosed ==
  \A r \in RunIds : Exited(r) => Closed(runs[r].conn)

\* C36, as progress: every temporary connection that is opened is closed
\* later on.
C36_EventuallyClosed ==
  \A c \in 1..MaxConns :
    (c \in ConnIds /\ conns[c].temp /\ ~Closed(c)) ~> (c \notin ConnIds \/ Closed(c))

\* ------------------------------------------------------------- disconnectAll
\* the service after disconnectAll: disconnectAccount was called for every
\* key of the connection table
afterDisconnectAll(i) ==
  LET keys == {a \in Accounts : connections[i][a] # 0}
  IN [conns |-> [c \in ConnIds |->
                   IF \E a \in keys : connections[i][a] = c
                   THEN EndConn(conns, c)[c] ELSE conns[c]],
      connections |-> [connections EXCEPT ![i] = [a \in Accounts |-> 0]],
      timers |-> [timers EXCEPT ![i] =
                    [a \in Accounts |->
                       IF a \in keys THEN ClearTracked(timers, i, a)[i][a] ELSE @[a]]],
      idleTimeouts |-> [idleTimeouts EXCEPT ![i] =
                          [a \in Accounts |-> IF a \in keys THEN NoTimer ELSE @[a]]],
      isIdle |-> [isIdle EXCEPT ![i] =
                    [a \in Accounts |-> IF a \in keys THEN "unset" ELSE @[a]]]]

\* disconnectAll of an IMAPService (the SIGTERM and SIGINT handlers call it on
\* the server's service)
disconnectAll(i) ==
  /\ conns' = afterDisconnectAll(i).conns
  /\ connections' = afterDisconnectAll(i).connections
  /\ timers' = afterDisconnectAll(i).timers
  /\ idleTimeouts' = afterDisconnectAll(i).idleTimeouts
  /\ isIdle' = afterDisconnectAll(i).isIdle
  /\ UNCHANGED <<registry, booted, calls, idleSupported, mailbox, index, idleOpen,
                 mailEv, runs, procs,
                 exited, lastSync, batch, edit, meta, effects, docs, done>>

\* the event loop and remote drops, accounts that are added and deleted, and
\* a shutdown signal
ShutdownNext ==
  \/ Lifecycle
  \/ Poll
  \/ \E c \in ConnIds : Drop(c)
  \/ \E a \in Accounts :
       \/ createAccount(a)
       \/ deleteAccount(a)
  \/ disconnectAll("server")

ShutdownSpec == Init /\ [][ShutdownNext]_vars

\* pending refresh and poll timers of an account in a service
PendingIn(ts, i, a) == ts[i][a]["refresh"] + ts[i][a]["poll"]

\* the only pending refresh or poll timer is the one idleTimeouts records
OnlyTheRecordedTimer(i, a) ==
  /\ PendingIn(timers, i, a) <= 1
  /\ PendingIn(timers, i, a) = 1 =>
       /\ idleTimeouts[i][a].live
       /\ timers[i][a][idleTimeouts[i][a].kind] = 1

\* nothing of the account is left in a service in state sv
NothingLeft(sv, i, a) ==
  /\ sv.connections[i][a] = 0
  /\ PendingIn(sv.timers, i, a) = 0
  /\ sv.isIdle[i][a] = "unset"

\* C37: an account has at most one pending refresh or poll timer, the one
\* recorded in idleTimeouts; after disconnectAccount(a) no such timer of a is
\* pending; whenever disconnectAll is called, it leaves no account with a
\* connection, a pending timer or an idle flag, accounts whose connection had
\* ended before the call included.
C37_DisconnectLeavesNothing ==
  /\ [](\A i \in Instances, a \in Accounts : OnlyTheRecordedTimer(i, a))
  /\ [][\A a \in Accounts :
          deleteAccount(a) => PendingIn(timers', "routes", a) = 0]_vars
  /\ [](\A i \in Instances, a \in Accounts : NothingLeft(afterDisconnectAll(i), i, a))

\* ------------------------------------------------- a duplicate lookup that fails
\* the pipeline scenario, and the search of a duplicate lookup may fail
LookupFailNext ==
  \/ PipeNext
  \/ \E p \in procs : ProcessLookupFails(p)

LookupFailSpec == PipeInit /\ [][LookupFailNext]_vars

\* processEmail of the message goes on after this step
GoesOn(p) == \E q \in procs' : q.run = p.run /\ q.msg = p.msg

\* C38: processEmail creates a record only when the lookup has established
\* that the message is absent: a processEmail whose lookup fails ends there,
\* and no message of the account ever has a second record.
C38_NoRecordAfterFailedLookup ==
  /\ [][\A p \in procs : ProcessLookupFails(p) => ~GoesOn(p)]_vars
  /\ [](\A a \in Accounts, m \in Msgs : index[a][m] <= 1)

====
